---- MODULE Spec2Model ----
(***************************************************************************)
(* The region/arena allocator of prick (src/prick_arena.h; src/arena.h    *)
(* holds the same implementation under documented declarations).          *)
(*                                                                         *)
(* Numbers.  size, capacity and every size argument are uint32_t.  TLC's  *)
(* integers are 32-bit signed, so a number n is kept as the pair          *)
(* <<n \div 2^16, n % 2^16>>.  A uint32_t has both halves below 2^16 and  *)
(* its arithmetic wraps (Add32, Sub32, Mul32); pointer arithmetic         *)
(* (bytes + size, pointer + old_size) is 64-bit and does not wrap (Plus), *)
(* so the upper half of an offset may exceed 2^16.                         *)
(*                                                                         *)
(* Memory.  A pointer is [obj, off]: obj is the region whose `bytes` it   *)
(* points into (regions are numbered in the order region_make returned    *)
(* them since the last arena_free), 0 for NULL, ExtObj for a buffer of    *)
(* the caller that no region holds.  mem[r] is the set of <<off, v>> with *)
(* v # 0 the byte at bytes + off; every other byte is 0.  Offsets at or   *)
(* past capacity are outside the block calloc returned; the model keeps   *)
(* what is written there so that such a write shows, apart from the       *)
(* headers and buffers of the other regions: blocks returned by calloc    *)
(* are taken to lie apart, so a pointer into one region is never within   *)
(* the bounds arena_realloc computes for another.  The identifiers ptr,   *)
(* oldsize and newsize of arena_realloc are read as its parameters        *)
(* pointer, old_size and new_size.                                        *)
(*                                                                         *)
(* State.  regs[r] is the header of region r (next, size, capacity), beg  *)
(* and end are the arena_t.  spans holds every (pointer, size) returned   *)
(* since the last arena_reset or arena_free, live those the caller still  *)
(* holds (a reallocated span is given up), last the latest operation with *)
(* its arguments and result, ncalls and nwrites the calls and the caller's*)
(* stores made so far.                                                     *)
(*                                                                         *)
(* The dynamic array of src/prick_darr.h is kept apart from the arena:     *)
(* darr is the prick_darr_t with data the block its data pointer refers    *)
(* to, one entry per byte (Undef for a byte realloc left uninitialised,    *)
(* which no operation of the library reads); a memcpy past the end of the  *)
(* block changes no byte of the block.  dlast is the latest call on the    *)
(* array with its arguments, dcalls the calls made on it so far.           *)
(*                                                                         *)
(* run follows one experiment on the arena: a sequence of arena_alloc      *)
(* calls from the empty arena, arena_reset, and the same sizes again, with *)
(* the positions each of the two runs returned.                            *)
(*                                                                         *)
(* The byte vector of src/vec.h: vec is the vec_t the caller's pointer     *)
(* leads to (size, capacity, and bytes kept like mem[r], what is written   *)
(* past capacity included), vdata the length and the bytes of everything   *)
(* appended so far, vlast the latest call, vcalls the calls made so far.   *)
(*                                                                         *)
(* The binary tree of src/prick_btree.h: nodes[n] is the prick_bnode_t the *)
(* allocator returned n-th since the last prick_btree_free (value, left,   *)
(* right; 0 is NULL), root the tree's root.  A prick_bnode_t ** is a link: *)
(* the root field of the tree or the left or right field of a node.        *)
(* inserted lists the values inserted, rotated tells whether a rotation    *)
(* was made, tlast is the latest call, tcalls the calls made so far.       *)
(***************************************************************************)
EXTENDS Integers, Sequences, FiniteSets, TLC

VARIABLES regs, mem, beg, end, spans, live, last, ncalls, nwrites,
          darr, dlast, dcalls,
          run,
          vec, vdata, vlast, vcalls,
          nodes, root, inserted, rotated, tlast, tcalls

arenavars == <<regs, mem, beg, end, spans, live, last, ncalls, nwrites>>

darrvars == <<darr, dlast, dcalls>>

runvars == <<run>>

vecvars == <<vec, vdata, vlast, vcalls>>

treevars == <<nodes, root, inserted, rotated, tlast, tcalls>>

vars == <<arenavars, darrvars, runvars, vecvars, treevars>>

\* ------------------------------------------------------------------ bounds
MaxCalls == 3
MaxWrites == 1
MaxDarrCalls == 3
MaxRun == 3
MaxVecCalls == 3
MaxTreeCalls == 4

\* --------------------------------------------------------------- constants
REGION_DEFAULT_SIZE == 512
REGION_CAPACITY_MULT == 2
PRICK_DARR_ALLOC_MULT == 2
PRICK_DARR_DEFAULT_SIZE == 8

\* ----------------------------------------------------------------- numbers
B == 2^16

Num(n) == <<n \div B, n % B>>

Zero == Num(0)

Lt(a, b) == a[1] < b[1] \/ (a[1] = b[1] /\ a[2] < b[2])

Le(a, b) == a = b \/ Lt(a, b)

\* 64-bit (pointer) arithmetic: no wrap-around
Plus(a, b) == <<a[1] + b[1] + ((a[2] + b[2]) \div B), (a[2] + b[2]) % B>>

\* a - b for Le(b, a)
Minus(a, b) == IF a[2] >= b[2] THEN <<a[1] - b[1], a[2] - b[2]>>
               ELSE <<a[1] - b[1] - 1, a[2] - b[2] + B>>

\* uint32_t arithmetic: modulo 2^32
Wrap32(a) == <<a[1] % B, a[2]>>

Add32(a, b) == Wrap32(Plus(a, b))

Sub32(a, b) == IF a[2] >= b[2] THEN <<(a[1] - b[1] + B) % B, a[2] - b[2]>>
               ELSE <<(a[1] - b[1] - 1 + B) % B, a[2] - b[2] + B>>

Mul32(a, k) == <<(a[1] * k + ((a[2] * k) \div B)) % B, (a[2] * k) % B>>

MAX(a, b) == IF Lt(b, a) THEN a ELSE b

MIN(a, b) == IF Lt(a, b) THEN a ELSE b

\* ---------------------------------------------------------------- pointers
NullObj == 0
ExtObj == -1

NULL == [obj |-> NullObj, off |-> Zero]

ExtPtr == [obj |-> ExtObj, off |-> Zero]

\* The caller's own buffer, which no region holds, and the bytes in it
ExtBytes == <<2>>

\* The bytes a caller stores
Marks == {1}

\* --------------------------------------------------------------- the bytes
\* o is one of the n bytes starting at lo
Within(o, lo, n) == Le(lo, o) /\ Lt(o, Plus(lo, n))

Byte(m, o) == IF \E e \in m : e[1] = o THEN (CHOOSE e \in m : e[1] = o)[2] ELSE 0

\* the byte the pointer [obj, off] points to
Peek(M, obj, off) ==
  IF obj = ExtObj
    THEN IF off[1] = 0 /\ off[2] < Len(ExtBytes) THEN ExtBytes[off[2] + 1] ELSE 0
    ELSE IF obj \in DOMAIN M THEN Byte(M[obj], off) ELSE 0

\* the offsets of the bytes that are not 0 among the n bytes starting at p
NonZero(M, p, n) ==
  IF p.obj = ExtObj
    THEN {}
    ELSE IF p.obj \in DOMAIN M
           THEN {e[1] : e \in {x \in M[p.obj] : Within(x[1], p.off, n)}}
           ELSE {}

\* memcpy(dst, src, n): the n bytes at src, read before any is written
SrcBytes(M, src, n) ==
  IF src.obj = ExtObj
    THEN {<<Num(k), ExtBytes[k + 1]>> : k \in {i \in 0..(Len(ExtBytes) - 1) : Lt(Num(i), n)}}
    ELSE {<<Minus(o, src.off), Byte(M[src.obj], o)>> : o \in NonZero(M, src, n)}

memcpy(M, dst, src, n) ==
  [M EXCEPT ![dst.obj] = {e \in @ : ~Within(e[1], dst.off, n)}
                         \cup {<<Plus(dst.off, e[1]), e[2]>> : e \in SrcBytes(M, src, n)}]

\* memset(bytes, 0, n)
memset0(m, n) == {e \in m : ~Lt(e[1], n)}

\* ----------------------------------------------------------------- regions
\* s is the heap and the arena handle: [regs, mem, beg, end]
region_make(s, capacity, next) ==
  LET cap == MAX(capacity, Num(REGION_DEFAULT_SIZE))
      region == Len(s.regs) + 1
  IN [s |-> [s EXCEPT !.regs = Append(@, [next |-> next, size |-> Zero, capacity |-> cap]),
                      !.mem = Append(@, {})],
      ret |-> region]

Remaining(R, region) == Sub32(R[region].capacity, R[region].size)

RECURSIVE Walk(_, _, _)
Walk(R, region, capacity) ==
  IF R[region].next # NullObj /\ Lt(Remaining(R, region), capacity)
    THEN Walk(R, R[region].next, capacity)
    ELSE region

\* region_alloc_rec enlarging the tail region instead of appending one
region_alloc_rec_grow_tail(s, region, capacity) ==
  IF region = NullObj
    THEN [s |-> s, ret |-> NULL]
    ELSE LET r == Walk(s.regs, region, capacity)
             grow == Lt(Remaining(s.regs, r), capacity)
             s1 == IF grow
                     THEN [s EXCEPT !.regs[r].capacity = Add32(s.regs[r].size, capacity)]
                     ELSE s
         IN [s |-> [s1 EXCEPT !.regs[r].size = Add32(@, capacity)],
             ret |-> [obj |-> r, off |-> s1.regs[r].size]]

region_alloc_rec(s, region, capacity) ==
  IF region = NullObj
    THEN [s |-> s, ret |-> NULL]
    ELSE LET r == Walk(s.regs, region, capacity)
             grow == Lt(Remaining(s.regs, r), capacity)
             new == region_make(s, Mul32(capacity, REGION_CAPACITY_MULT), NullObj)
             s1 == IF grow THEN [new.s EXCEPT !.regs[r].next = new.ret] ELSE s
             reg == IF grow THEN new.ret ELSE r
         IN [s |-> [s1 EXCEPT !.regs[reg].size = Add32(@, capacity)],
             ret |-> [obj |-> reg, off |-> s1.regs[reg].size]]

RECURSIVE ChainOf(_, _)
ChainOf(R, region) ==
  IF region = NullObj THEN {} ELSE {region} \cup ChainOf(R, R[region].next)

region_delete_rec(s, region) ==
  LET gone == ChainOf(s.regs, region)
  IN [s EXCEPT !.regs = SubSeq(@, 1, Len(@) - Cardinality(gone)),
               !.mem = SubSeq(@, 1, Len(@) - Cardinality(gone))]

\* ------------------------------------------------------------------- arena
\* arena_alloc without lines 116-117: end is left at the old tail
arena_alloc_stale_end(s, size) ==
  LET made == region_make(s, size, NullObj)
      s0 == IF s.beg = NullObj
              THEN [made.s EXCEPT !.beg = made.ret, !.end = made.ret]
              ELSE s
      a == region_alloc_rec(s0, s0.beg, size)
  IN [s |-> a.s, ret |-> a.ret]

\* arena_alloc sizing the first region as region_alloc_rec sizes a new one
arena_alloc_first_mult(s, size) ==
  LET made == region_make(s, Mul32(size, REGION_CAPACITY_MULT), NullObj)
      s0 == IF s.beg = NullObj
              THEN [made.s EXCEPT !.beg = made.ret, !.end = made.ret]
              ELSE s
      a == region_alloc_rec(s0, s0.beg, size)
      s1 == IF a.s.regs[a.s.end].next # NullObj
              THEN [a.s EXCEPT !.end = a.s.regs[a.s.end].next]
              ELSE a.s
  IN [s |-> s1, ret |-> a.ret]

arena_alloc(s, size) ==
  LET made == region_make(s, size, NullObj)
      s0 == IF s.beg = NullObj
              THEN [made.s EXCEPT !.beg = made.ret, !.end = made.ret]
              ELSE s
      a == region_alloc_rec(s0, s0.beg, size)
      s1 == IF a.s.regs[a.s.end].next # NullObj
              THEN [a.s EXCEPT !.end = a.s.regs[a.s.end].next]
              ELSE a.s
  IN [s |-> s1, ret |-> a.ret]

\* reg->bytes <= pointer && reg->bytes + reg->size >= pointer + old_size
Holds(R, reg, pointer, old_size) ==
  pointer.obj = reg /\ Le(Plus(pointer.off, old_size), R[reg].size)

RECURSIVE Find(_, _, _, _)
Find(R, reg, pointer, old_size) ==
  IF reg # NullObj /\ ~Holds(R, reg, pointer, old_size)
    THEN Find(R, R[reg].next, pointer, old_size)
    ELSE reg

\* ptr + oldsize == reg->bytes + reg->size &&
\* (reg->capacity - reg->size) > (newsize - oldsize)
InPlace(R, reg, pointer, old_size, new_size) ==
  /\ reg # NullObj
  /\ Plus(pointer.off, old_size) = R[reg].size
  /\ Lt(Sub32(new_size, old_size), Remaining(R, reg))

\* arena_realloc allocating old_size bytes for a null pointer
arena_realloc_null_old(s, pointer, old_size, new_size) ==
  IF pointer = NULL
    THEN arena_alloc(s, old_size)
    ELSE LET reg == Find(s.regs, s.beg, pointer, old_size)
             a == arena_alloc(s, new_size)
         IN IF InPlace(s.regs, reg, pointer, old_size, new_size)
              THEN [s |-> [s EXCEPT !.regs[reg].size = Add32(@, Sub32(new_size, old_size))],
                    ret |-> pointer]
              ELSE [s |-> [a.s EXCEPT !.mem = memcpy(@, a.ret, pointer, old_size)],
                    ret |-> a.ret]

arena_realloc(s, pointer, old_size, new_size) ==
  IF pointer = NULL
    THEN arena_alloc(s, new_size)
    ELSE LET reg == Find(s.regs, s.beg, pointer, old_size)
             a == arena_alloc(s, new_size)
         IN IF InPlace(s.regs, reg, pointer, old_size, new_size)
              THEN [s |-> [s EXCEPT !.regs[reg].size = Add32(@, Sub32(new_size, old_size))],
                    ret |-> pointer]
              ELSE [s |-> [a.s EXCEPT !.mem = memcpy(@, a.ret, pointer, old_size)],
                    ret |-> a.ret]

\* arena_reset without the memset of line 167
arena_reset_no_memset(s) ==
  LET chain == ChainOf(s.regs, s.beg)
  IN [s EXCEPT !.regs = [r \in DOMAIN @ |->
                           IF r \in chain THEN [@[r] EXCEPT !.size = Zero] ELSE @[r]]]

arena_reset(s) ==
  LET chain == ChainOf(s.regs, s.beg)
  IN [s EXCEPT !.regs = [r \in DOMAIN @ |->
                           IF r \in chain THEN [@[r] EXCEPT !.size = Zero] ELSE @[r]],
               !.mem = [r \in DOMAIN @ |->
                          IF r \in chain THEN memset0(@[r], s.regs[r].capacity) ELSE @[r]]]

\* arena_free clearing beg alone
arena_free_keep_end(s) ==
  [region_delete_rec(s, s.beg) EXCEPT !.beg = NullObj]

arena_free(s) ==
  [region_delete_rec(s, s.beg) EXCEPT !.beg = NullObj, !.end = NullObj]

\* ------------------------------------------------------------ prick_darr
\* a byte of a block that was never written
Undef == -1

\* a prick_darr_t nobody initialised, and the call record that goes with it
NoDarr == [size |-> 0, used |-> 0, available |-> 0, data |-> <<>>]

NoCall == [op |-> "none", ptr |-> <<>>, n |-> 0, index |-> 0]

PRICK_DARR_MAX(a, b) == IF a > b THEN a ELSE b

\* calloc(1, n)
calloc(n) == [i \in 1..n |-> 0]

\* realloc(data, n): the first min(n, old length) bytes are kept
realloc(data, n) == [i \in 1..n |-> IF i <= Len(data) THEN data[i] ELSE Undef]

\* memcpy(data + off, ptr, k) as the block sees it
Store(data, off, ptr, k) ==
  [i \in 1..Len(data) |-> IF off < i /\ i <= off + k THEN ptr[i - off] ELSE data[i]]

prick_darr_init(member_size) ==
  [size |-> member_size, used |-> 0, available |-> PRICK_DARR_DEFAULT_SIZE,
   data |-> calloc(member_size * PRICK_DARR_DEFAULT_SIZE)]

\* free(darr->data): the fields stay, the block is gone
prick_darr_free(d) == [d EXCEPT !.data = <<>>]

RECURSIVE prick_darr_ensure_capacity(_, _)
prick_darr_ensure_capacity(d, requested) ==
  IF d.used + requested > d.available
    THEN LET available == PRICK_DARR_MAX(d.available * PRICK_DARR_ALLOC_MULT,
                                         d.used + requested)
         IN prick_darr_ensure_capacity(
              [d EXCEPT !.available = available,
                        !.data = realloc(d.data, available * d.size)],
              requested)
    ELSE d

prick_darr_tighten(d) ==
  IF d.used < d.available
    THEN [d EXCEPT !.data = realloc(d.data, d.used * d.size),
                   !.used = d.available]
    ELSE d

prick_darr_append(d, ptr) ==
  LET e == prick_darr_ensure_capacity(d, 1)
  IN [e EXCEPT !.data = Store(e.data, e.used * e.size, ptr, e.size),
               !.used = e.used + 1]

prick_darr_append_n(d, ptr, n) ==
  LET e == prick_darr_ensure_capacity(d, n)
  IN [e EXCEPT !.data = Store(e.data, e.used * e.size, ptr, n * e.size),
               !.used = e.used + n]

prick_darr_write(d, ptr, index) ==
  IF d.used <= index
    THEN d
    ELSE [d EXCEPT !.data = Store(d.data, index * d.size, ptr, d.size)]

prick_darr_write_n(d, ptr, n, index) ==
  IF d.used <= n + index
    THEN d
    ELSE [d EXCEPT !.data = Store(d.data, index * d.size, ptr, n * d.size)]

\* ------------------------------------------------------------------- vec
\* memcpy(dst + off, src, n) on a block m, src given by its bytes that are not 0
Put(m, off, src, n) ==
  {e \in m : ~Within(e[1], off, n)}
    \cup {<<Plus(off, e[1]), e[2]>> : e \in {x \in src : Lt(x[1], n)}}

vec_make(size) == [size |-> Zero, capacity |-> size, bytes |-> {}]

vec_ensure_remaining(v, space) ==
  IF Lt(Sub32(v.capacity, v.size), space)
    THEN LET new_vec == vec_make(MAX(Mul32(v.capacity, 2), Add32(v.size, space)))
         IN [new_vec EXCEPT !.size = v.size,
                            !.bytes = Put(@, Zero, v.bytes, v.size)]
    ELSE v

vec_append_byte(v, byte) ==
  LET e == vec_ensure_remaining(v, Num(1))
  IN [e EXCEPT !.bytes = Put(@, e.size, IF byte = 0 THEN {} ELSE {<<Zero, byte>>}, Num(1)),
               !.size = Add32(e.size, Num(1))]

vec_append(v, data, size) ==
  LET e == vec_ensure_remaining(v, size)
  IN [e EXCEPT !.bytes = Put(@, e.size, data, size),
               !.size = Add32(e.size, size)]

vec_clone(src) ==
  [vec_make(src.size) EXCEPT !.bytes = Put(@, Zero, src.bytes, src.size),
                             !.size = src.size]

\* ----------------------------------------------------------- prick_btree
NullNode == 0

\* a prick_bnode_t **: NULL, &tree->root, &node->left or &node->right
NoLink == [at |-> NullNode, side |-> "none"]

RootLink == [at |-> NullNode, side |-> "root"]

\* the comparator the caller supplies, here the order of the integers
comp(a, b) == a - b

\* T is the heap and the tree: [nodes, root]
Get(T, link) ==
  IF link.side = "none" THEN NullNode
  ELSE IF link.side = "root" THEN T.root
  ELSE T.nodes[link.at][link.side]

Set(T, link, n) ==
  IF link.side = "root"
    THEN [T EXCEPT !.root = n]
    ELSE [T EXCEPT !.nodes[link.at][link.side] = n]

\* tree->alloc() with value, left and right filled in
NewNode(value) == [value |-> value, left |-> NullNode, right |-> NullNode]

\* prick_bnode_insert sending equal values to the left
RECURSIVE prick_bnode_insert_le(_, _, _)
prick_bnode_insert_le(N, node, value) ==
  IF node = NullNode
    THEN [nodes |-> Append(N, NewNode(value)), ret |-> Len(N) + 1]
    ELSE LET picked_node == IF comp(value, N[node].value) <= 0 THEN "left" ELSE "right"
         IN IF N[node][picked_node] # NullNode
              THEN [nodes |-> prick_bnode_insert_le(N, N[node][picked_node], value).nodes,
                    ret |-> node]
              ELSE [nodes |-> [Append(N, NewNode(value)) EXCEPT
                                 ![node][picked_node] = Len(N) + 1],
                    ret |-> node]

RECURSIVE prick_bnode_insert(_, _, _)
prick_bnode_insert(N, node, value) ==
  IF node = NullNode
    THEN [nodes |-> Append(N, NewNode(value)), ret |-> Len(N) + 1]
    ELSE LET picked_node == IF comp(value, N[node].value) < 0 THEN "left" ELSE "right"
         IN IF N[node][picked_node] # NullNode
              THEN [nodes |-> prick_bnode_insert(N, N[node][picked_node], value).nodes,
                    ret |-> node]
              ELSE [nodes |-> [Append(N, NewNode(value)) EXCEPT
                                 ![node][picked_node] = Len(N) + 1],
                    ret |-> node]

prick_btree_insert(T, value) ==
  LET r == prick_bnode_insert(T.nodes, T.root, value)
  IN [nodes |-> r.nodes, root |-> r.ret]

prick_btree_free(T) == [nodes |-> <<>>, root |-> NullNode]

prick_bnode_right_rotate(T, node) ==
  IF node = NoLink \/ Get(T, node) = NullNode
    THEN T
    ELSE LET n == Get(T, node)
             left == T.nodes[n].left
         IN IF left # NullNode
              THEN LET T1 == [T EXCEPT !.nodes[n].left = T.nodes[left].right]
                       T2 == [T1 EXCEPT !.nodes[left].right = n]
                   IN Set(T2, node, left)
              ELSE T

prick_bnode_left_rotate(T, node) ==
  IF node = NoLink \/ Get(T, node) = NullNode
    THEN T
    ELSE LET n == Get(T, node)
             right == T.nodes[n].right
         IN IF right # NullNode
              THEN LET T1 == [T EXCEPT !.nodes[n].right = T.nodes[right].left]
                       T2 == [T1 EXCEPT !.nodes[right].left = n]
                   IN Set(T2, node, right)
              ELSE T

\* ------------------------------------------------- what a program leaves idle
NoRun == [phase |-> "idle", sizes |-> <<>>, first |-> <<>>, second |-> <<>>, nregs |-> 0]

IdleRun == run = NoRun

NoVec == [size |-> Zero, capacity |-> Zero, bytes |-> {}]

NoData == [len |-> Zero, bytes |-> {}]

NoVecCall == [op |-> "none", n |-> Zero]

IdleVec == vec = NoVec /\ vdata = NoData /\ vlast = NoVecCall /\ vcalls = 0

IdleTree ==
  /\ nodes = <<>>
  /\ root = NullNode
  /\ inserted = <<>>
  /\ rotated = FALSE
  /\ tlast = [op |-> "none", value |-> 0, link |-> NoLink]
  /\ tcalls = 0

\* ------------------------------------------------------------ the program
\* arena_t zero-initialised: no region
Init ==
  /\ regs = <<>>
  /\ mem = <<>>
  /\ beg = NullObj
  /\ end = NullObj
  /\ spans = {}
  /\ live = {}
  /\ last = [op |-> "init", ptr |-> NULL, old |-> Zero, new |-> Zero, ret |-> NULL]
  /\ ncalls = 0
  /\ nwrites = 0
  /\ darr = NoDarr
  /\ dlast = NoCall
  /\ dcalls = 0
  /\ IdleRun
  /\ IdleVec
  /\ IdleTree

Cur == [regs |-> regs, mem |-> mem, beg |-> beg, end |-> end]

Becomes(s) ==
  /\ regs' = s.regs
  /\ mem' = s.mem
  /\ beg' = s.beg
  /\ end' = s.end

HALF == <<B \div 2, 0>>

\* the sizes a call is made with
Sizes == {Num(1), Num(2), Num(REGION_DEFAULT_SIZE), HALF}

Span(p, n) == [ptr |-> p, len |-> n]

Alloc(size) ==
  /\ ncalls < MaxCalls
  /\ LET r == arena_alloc(Cur, size)
     IN /\ Becomes(r.s)
        /\ spans' = spans \cup {Span(r.ret, size)}
        /\ live' = live \cup {Span(r.ret, size)}
        /\ last' = [op |-> "alloc", ptr |-> NULL, old |-> Zero, new |-> size, ret |-> r.ret]
  /\ ncalls' = ncalls + 1
  /\ UNCHANGED <<nwrites, darrvars, runvars, vecvars, treevars>>

\* the (pointer, old_size) pairs a caller reallocates: an allocation it holds,
\* NULL, or a buffer of its own that the arena never handed out
ReallocArgs ==
  live \cup {Span(NULL, Zero), Span(NULL, Num(2)), Span(ExtPtr, Num(Len(ExtBytes)))}

Realloc(pointer, old_size, new_size) ==
  /\ ncalls < MaxCalls
  /\ LET r == arena_realloc(Cur, pointer, old_size, new_size)
     IN /\ Becomes(r.s)
        /\ spans' = spans \cup {Span(r.ret, new_size)}
        /\ live' = (live \ {Span(pointer, old_size)}) \cup {Span(r.ret, new_size)}
        /\ last' = [op |-> "realloc", ptr |-> pointer, old |-> old_size,
                    new |-> new_size, ret |-> r.ret]
  /\ ncalls' = ncalls + 1
  /\ UNCHANGED <<nwrites, darrvars, runvars, vecvars, treevars>>

Reset ==
  /\ ncalls < MaxCalls
  /\ Becomes(arena_reset(Cur))
  /\ spans' = {}
  /\ live' = {}
  /\ last' = [op |-> "reset", ptr |-> NULL, old |-> Zero, new |-> Zero, ret |-> NULL]
  /\ ncalls' = ncalls + 1
  /\ UNCHANGED <<nwrites, darrvars, runvars, vecvars, treevars>>

Free ==
  /\ ncalls < MaxCalls
  /\ Becomes(arena_free(Cur))
  /\ spans' = {}
  /\ live' = {}
  /\ last' = [op |-> "free", ptr |-> NULL, old |-> Zero, new |-> Zero, ret |-> NULL]
  /\ ncalls' = ncalls + 1
  /\ UNCHANGED <<nwrites, darrvars, runvars, vecvars, treevars>>

\* the caller stores a byte in an allocation it holds: its first or its last
WriteOffsets(n) == IF n = Zero THEN {} ELSE {Zero, Minus(n, Num(1))}

Write(sp, k, v) ==
  /\ nwrites < MaxWrites
  /\ mem' = [mem EXCEPT ![sp.ptr.obj] =
               {e \in @ : e[1] # Plus(sp.ptr.off, k)} \cup {<<Plus(sp.ptr.off, k), v>>}]
  /\ last' = [op |-> "write", ptr |-> sp.ptr, old |-> k, new |-> Zero, ret |-> NULL]
  /\ nwrites' = nwrites + 1
  /\ UNCHANGED <<regs, beg, end, spans, live, ncalls, darrvars, runvars, vecvars, treevars>>

Next ==
  \/ \E size \in Sizes : Alloc(size)
  \/ \E a \in ReallocArgs : \E new_size \in Sizes : Realloc(a.ptr, a.len, new_size)
  \/ Reset
  \/ Free
  \/ \E sp \in live : \E k \in WriteOffsets(sp.len) : \E v \in Marks : Write(sp, k, v)

Spec == Init /\ [][Next]_vars

\* The program after arena_alloc(512), arena_alloc(2^31), arena_alloc(2^31) on
\* an empty arena; ncalls counts the calls made after these
Empty == [regs |-> <<>>, mem |-> <<>>, beg |-> NullObj, end |-> NullObj]

First == arena_alloc(Empty, Num(REGION_DEFAULT_SIZE))

Second == arena_alloc(First.s, HALF)

Third == arena_alloc(Second.s, HALF)

InitThree ==
  /\ regs = Third.s.regs
  /\ mem = Third.s.mem
  /\ beg = Third.s.beg
  /\ end = Third.s.end
  /\ spans = {Span(First.ret, Num(REGION_DEFAULT_SIZE)), Span(Second.ret, HALF),
              Span(Third.ret, HALF)}
  /\ live = spans
  /\ last = [op |-> "alloc", ptr |-> NULL, old |-> Zero, new |-> HALF, ret |-> Third.ret]
  /\ ncalls = 0
  /\ nwrites = 0
  /\ darr = NoDarr
  /\ dlast = NoCall
  /\ dcalls = 0
  /\ IdleRun
  /\ IdleVec
  /\ IdleTree

SpecThree == InitThree /\ [][Next]_vars

\* The dynamic array after prick_darr_init; the arena is not touched
MemberSizes == {1, 2}

\* the bytes an element is made of, the counts and the indexes of the calls
DarrBytes == {1, 2}

Counts == {0, 1, 2, 9}

Indexes == {0, 1, 2}

\* the caller's buffer of n elements of d, every byte v
Buffer(d, v, n) == [i \in 1..(n * d.size) |-> v]

InitDarr ==
  /\ regs = <<>>
  /\ mem = <<>>
  /\ beg = NullObj
  /\ end = NullObj
  /\ spans = {}
  /\ live = {}
  /\ last = [op |-> "init", ptr |-> NULL, old |-> Zero, new |-> Zero, ret |-> NULL]
  /\ ncalls = 0
  /\ nwrites = 0
  /\ \E member_size \in MemberSizes : darr = prick_darr_init(member_size)
  /\ dlast = [NoCall EXCEPT !.op = "init"]
  /\ dcalls = 0
  /\ IdleRun
  /\ IdleVec
  /\ IdleTree

\* a call on the array: it is not made on an array that was freed
DarrCall(d, op, ptr, n, index) ==
  /\ dcalls < MaxDarrCalls
  /\ dlast.op # "free"
  /\ darr' = d
  /\ dlast' = [op |-> op, ptr |-> ptr, n |-> n, index |-> index]
  /\ dcalls' = dcalls + 1
  /\ UNCHANGED <<arenavars, runvars, vecvars, treevars>>

EnsureCapacity(requested) ==
  DarrCall(prick_darr_ensure_capacity(darr, requested), "ensure_capacity", <<>>, requested, 0)

Tighten == DarrCall(prick_darr_tighten(darr), "tighten", <<>>, 0, 0)

DarrAppend(v) ==
  DarrCall(prick_darr_append(darr, Buffer(darr, v, 1)), "append", Buffer(darr, v, 1), 1, 0)

DarrAppendN(v, n) ==
  DarrCall(prick_darr_append_n(darr, Buffer(darr, v, n), n), "append_n",
           Buffer(darr, v, n), n, 0)

WriteAt(v, index) ==
  DarrCall(prick_darr_write(darr, Buffer(darr, v, 1), index), "write",
           Buffer(darr, v, 1), 1, index)

WriteN(v, n, index) ==
  DarrCall(prick_darr_write_n(darr, Buffer(darr, v, n), n, index), "write_n",
           Buffer(darr, v, n), n, index)

DarrFree == DarrCall(prick_darr_free(darr), "free", <<>>, 0, 0)

\* prick_darr_init on the struct of an array that was freed
DarrInit(member_size) ==
  /\ dcalls < MaxDarrCalls
  /\ dlast.op = "free"
  /\ darr' = prick_darr_init(member_size)
  /\ dlast' = [NoCall EXCEPT !.op = "init"]
  /\ dcalls' = dcalls + 1
  /\ UNCHANGED <<arenavars, runvars, vecvars, treevars>>

NextDarr ==
  \/ \E requested \in Counts : EnsureCapacity(requested)
  \/ Tighten
  \/ \E v \in DarrBytes : DarrAppend(v)
  \/ \E v \in DarrBytes : \E n \in Counts : DarrAppendN(v, n)
  \/ \E v \in DarrBytes : \E index \in Indexes : WriteAt(v, index)
  \/ \E v \in DarrBytes : \E n \in Counts : \E index \in Indexes : WriteN(v, n, index)
  \/ DarrFree
  \/ \E member_size \in MemberSizes : DarrInit(member_size)

SpecDarr == InitDarr /\ [][NextDarr]_vars

\* The experiment of allocating, resetting and allocating the same sizes again
InitReplay ==
  /\ regs = <<>>
  /\ mem = <<>>
  /\ beg = NullObj
  /\ end = NullObj
  /\ spans = {}
  /\ live = {}
  /\ last = [op |-> "init", ptr |-> NULL, old |-> Zero, new |-> Zero, ret |-> NULL]
  /\ ncalls = 0
  /\ nwrites = 0
  /\ darr = NoDarr
  /\ dlast = NoCall
  /\ dcalls = 0
  /\ run = [NoRun EXCEPT !.phase = "first"]
  /\ IdleVec
  /\ IdleTree

\* arena_alloc(size) as a call of the experiment
RunAlloc(size) ==
  /\ LET r == arena_alloc(Cur, size)
     IN /\ Becomes(r.s)
        /\ spans' = spans \cup {Span(r.ret, size)}
        /\ live' = live \cup {Span(r.ret, size)}
        /\ last' = [op |-> "alloc", ptr |-> NULL, old |-> Zero, new |-> size, ret |-> r.ret]
  /\ ncalls' = ncalls + 1
  /\ UNCHANGED <<nwrites, darrvars, vecvars, treevars>>

ReplayFirst(size) ==
  /\ run.phase = "first"
  /\ Len(run.sizes) < MaxRun
  /\ RunAlloc(size)
  /\ run' = [run EXCEPT !.sizes = Append(@, size), !.first = Append(@, last'.ret)]

ReplayReset ==
  /\ run.phase = "first"
  /\ run.sizes # <<>>
  /\ Becomes(arena_reset(Cur))
  /\ spans' = {}
  /\ live' = {}
  /\ last' = [op |-> "reset", ptr |-> NULL, old |-> Zero, new |-> Zero, ret |-> NULL]
  /\ ncalls' = ncalls + 1
  /\ run' = [run EXCEPT !.phase = "second", !.nregs = Len(regs)]
  /\ UNCHANGED <<nwrites, darrvars, vecvars, treevars>>

ReplaySecond ==
  /\ run.phase = "second"
  /\ Len(run.second) < Len(run.sizes)
  /\ RunAlloc(run.sizes[Len(run.second) + 1])
  /\ run' = [run EXCEPT !.second = Append(@, last'.ret)]

NextReplay ==
  \/ \E size \in Sizes : ReplayFirst(size)
  \/ ReplayReset
  \/ ReplaySecond

SpecReplay == InitReplay /\ [][NextReplay]_vars

\* The byte vector after vec_make; arena and array are not touched
VecSizes == {Zero, Num(1), Num(2), HALF}

VecBytes == {0, 1, 2}

\* the caller's buffer of n bytes: its first and its last byte are v, the rest 0
VecBuffer(v, n) ==
  IF n = Zero \/ v = 0 THEN {} ELSE {<<Zero, v>>, <<Minus(n, Num(1)), v>>}

\* everything appended so far, with the n bytes of data after it
Appended(d, data, n) ==
  [len |-> Plus(d.len, n),
   bytes |-> d.bytes \cup {<<Plus(d.len, e[1]), e[2]>> : e \in data}]

InitVec ==
  /\ regs = <<>>
  /\ mem = <<>>
  /\ beg = NullObj
  /\ end = NullObj
  /\ spans = {}
  /\ live = {}
  /\ last = [op |-> "init", ptr |-> NULL, old |-> Zero, new |-> Zero, ret |-> NULL]
  /\ ncalls = 0
  /\ nwrites = 0
  /\ darr = NoDarr
  /\ dlast = NoCall
  /\ dcalls = 0
  /\ IdleRun
  /\ \E size \in VecSizes :
       /\ vec = vec_make(size)
       /\ vlast = [op |-> "make", n |-> size]
  /\ vdata = NoData
  /\ vcalls = 0
  /\ IdleTree

\* a call on the vector: it is not made on a vector that was freed
VecCall(v, d, op, n) ==
  /\ vcalls < MaxVecCalls
  /\ vlast.op # "free"
  /\ vec' = v
  /\ vdata' = d
  /\ vlast' = [op |-> op, n |-> n]
  /\ vcalls' = vcalls + 1
  /\ UNCHANGED <<arenavars, darrvars, runvars, treevars>>

VecEnsureRemaining(space) ==
  VecCall(vec_ensure_remaining(vec, space), vdata, "ensure_remaining", space)

VecAppendByte(byte) ==
  VecCall(vec_append_byte(vec, byte),
          Appended(vdata, VecBuffer(byte, Num(1)), Num(1)), "append_byte", Num(1))

VecAppend(v, size) ==
  VecCall(vec_append(vec, VecBuffer(v, size), size),
          Appended(vdata, VecBuffer(v, size), size), "append", size)

\* vec_clone, the caller going on with the clone
VecClone == VecCall(vec_clone(vec), vdata, "clone", Zero)

\* vec_free: the caller's pointer is NULL afterwards
VecFree == VecCall(NoVec, NoData, "free", Zero)

\* vec_make for the pointer of a vector that was freed
VecMake(size) ==
  /\ vcalls < MaxVecCalls
  /\ vlast.op = "free"
  /\ vec' = vec_make(size)
  /\ vdata' = NoData
  /\ vlast' = [op |-> "make", n |-> size]
  /\ vcalls' = vcalls + 1
  /\ UNCHANGED <<arenavars, darrvars, runvars, treevars>>

NextVec ==
  \/ \E space \in VecSizes : VecEnsureRemaining(space)
  \/ \E byte \in VecBytes : VecAppendByte(byte)
  \/ \E v \in VecBytes : \E size \in VecSizes : VecAppend(v, size)
  \/ VecClone
  \/ VecFree
  \/ \E size \in VecSizes : VecMake(size)

SpecVec == InitVec /\ [][NextVec]_vars

\* The tree after prick_btree_init; arena, array and vector are not touched
TreeValues == {1, 2, 3}

\* the links of the tree: NULL, its root field and the fields of its nodes
Links ==
  {NoLink, RootLink} \cup {[at |-> n, side |-> s] : n \in DOMAIN nodes, s \in {"left", "right"}}

Tree == [nodes |-> nodes, root |-> root]

InitTree ==
  /\ regs = <<>>
  /\ mem = <<>>
  /\ beg = NullObj
  /\ end = NullObj
  /\ spans = {}
  /\ live = {}
  /\ last = [op |-> "init", ptr |-> NULL, old |-> Zero, new |-> Zero, ret |-> NULL]
  /\ ncalls = 0
  /\ nwrites = 0
  /\ darr = NoDarr
  /\ dlast = NoCall
  /\ dcalls = 0
  /\ IdleRun
  /\ IdleVec
  /\ nodes = <<>>
  /\ root = NullNode
  /\ inserted = <<>>
  /\ rotated = FALSE
  /\ tlast = [op |-> "init", value |-> 0, link |-> NoLink]
  /\ tcalls = 0

TreeCall(T, op, value, link) ==
  /\ tcalls < MaxTreeCalls
  /\ nodes' = T.nodes
  /\ root' = T.root
  /\ tlast' = [op |-> op, value |-> value, link |-> link]
  /\ tcalls' = tcalls + 1
  /\ UNCHANGED <<arenavars, darrvars, runvars, vecvars>>

TreeInsert(value) ==
  /\ TreeCall(prick_btree_insert(Tree, value), "insert", value, NoLink)
  /\ inserted' = Append(inserted, value)
  /\ UNCHANGED rotated

RightRotate(link) ==
  /\ TreeCall(prick_bnode_right_rotate(Tree, link), "right_rotate", 0, link)
  /\ rotated' = TRUE
  /\ UNCHANGED inserted

LeftRotate(link) ==
  /\ TreeCall(prick_bnode_left_rotate(Tree, link), "left_rotate", 0, link)
  /\ rotated' = TRUE
  /\ UNCHANGED inserted

TreeFree ==
  /\ TreeCall(prick_btree_free(Tree), "free", 0, NoLink)
  /\ inserted' = <<>>
  /\ rotated' = FALSE

NextTree ==
  \/ \E value \in TreeValues : TreeInsert(value)
  \/ \E link \in Links : RightRotate(link)
  \/ \E link \in Links : LeftRotate(link)
  \/ TreeFree

SpecTree == InitTree /\ [][NextTree]_vars

\* ------------------------------------------------------------------ claims
Chain == ChainOf(regs, beg)

CallStep == ncalls' # ncalls

\* C1: every region of the chain has 0 <= size <= capacity, whatever uint32
\* sizes the calls were made with.
C1_SizeWithinCapacity ==
  \A r \in Chain : Le(regs[r].size, regs[r].capacity)

\* C2: if beg is non-null, end is the last region reachable from beg by
\* following next (end.next is null); if beg is null, end is null.
C2_EndIsTail ==
  /\ beg # NullObj => end \in Chain /\ regs[end].next = NullObj
  /\ beg = NullObj => end = NullObj

\* a call has appended a region and end has moved off beg
C2_Witness ==
  /\ last.op \in {"alloc", "realloc"}
  /\ Len(regs) >= 2
  /\ end # beg
  /\ last.ret.obj = end

\* C3: every byte of the span arena_alloc returns is zero when it is returned,
\* the caller having written only inside spans it was given.
C3_AllocIsZeroed ==
  last.op = "alloc" => NonZero(mem, last.ret, last.new) = {}

\* the offsets of region r at which the step changes a byte
Changed(r) ==
  LET before == IF r \in DOMAIN mem THEN mem[r] ELSE {}
      after == IF r \in DOMAIN mem' THEN mem'[r] ELSE {}
  IN {o \in {e[1] : e \in before \cup after} : Byte(before, o) # Byte(after, o)}

\* the step leaves the n bytes at p as they were
Kept(p, n) == \A o \in Changed(p.obj) : ~Within(o, p.off, n)

ReallocStep == CallStep /\ last'.op = "realloc"

\* the region the reallocated pointer is found in (NullObj: in none)
Found == Find(regs, beg, last'.ptr, last'.old)

\* the call took the fallback path: it made a fresh allocation
Fallback ==
  /\ ReallocStep
  /\ last'.ptr # NULL
  /\ ~InPlace(regs, Found, last'.ptr, last'.old, last'.new)

\* C4: between two reset/free calls, the bytes of every span returned earlier
\* are left unchanged by a later arena_alloc and by a later arena_realloc made
\* on a different pointer (NULL, or an allocation the caller holds).
C4_EarlierSpansKept ==
  [][(CallStep /\ last'.op \in {"alloc", "realloc"} /\ last'.ptr.obj # ExtObj)
       => \A sp \in spans :
            (last'.op = "realloc" => sp.ptr # last'.ptr) => Kept(sp.ptr, sp.len)]_vars

\* the case C5 is about: growing (or keeping) the latest allocation of a region
\* whose remaining capacity is at least new_size - old_size
C5_Case ==
  /\ ReallocStep
  /\ last'.ptr.obj \in Chain
  /\ Le(last'.old, last'.new)
  /\ LET R == regs[last'.ptr.obj]
     IN /\ Plus(last'.ptr.off, last'.old) = R.size
        /\ Le(R.size, R.capacity)
        /\ Le(Minus(last'.new, last'.old), Minus(R.capacity, R.size))

\* C5: in that case arena_realloc returns the pointer itself, increases the
\* region's size by exactly new_size - old_size, creates no region and copies
\* nothing (the first old_size bytes, like every other byte, are unchanged).
C5_InPlaceExtension ==
  [][C5_Case =>
       /\ last'.ret = last'.ptr
       /\ regs'[last'.ptr.obj].size
            = Plus(regs[last'.ptr.obj].size, Minus(last'.new, last'.old))
       /\ Len(regs') = Len(regs)
       /\ mem' = mem]_vars

\* C6: on the fallback path exactly min(old_size, new_size) bytes are copied:
\* no byte outside [new_ptr, new_ptr + new_size) is written.
C6_CopyStaysInNewSpan ==
  [][Fallback =>
       \A r \in DOMAIN mem' :
         \A o \in Changed(r) :
           r = last'.ret.obj /\ Within(o, last'.ret.off, MIN(last'.old, last'.new))]_vars

\* the n bytes at q after the step equal the n bytes at p before it
Copied(q, p, n) ==
  /\ \A o \in NonZero(mem, p, n) :
       Peek(mem', q.obj, Plus(q.off, Minus(o, p.off))) = Peek(mem, p.obj, o)
  /\ \A o \in NonZero(mem', q, n) :
       Peek(mem, p.obj, Plus(p.off, Minus(o, q.off))) = Peek(mem', q.obj, o)

Disjoint(p, n, q, m) ==
  p.obj # q.obj \/ Le(Plus(p.off, n), q.off) \/ Le(Plus(q.off, m), p.off)

\* the case C7 is about: growing an allocation the caller holds that is not the
\* latest one of its region
C7_Case ==
  /\ ReallocStep
  /\ Span(last'.ptr, last'.old) \in live
  /\ Lt(last'.old, last'.new)
  /\ Plus(last'.ptr.off, last'.old) # regs[last'.ptr.obj].size

\* C7: then the returned pointer differs from the old one, its new_size bytes
\* are disjoint from the old span, its first old_size bytes equal the old
\* contents, and every other live allocation of the old region keeps its bytes.
C7_FallbackGrowth ==
  [][C7_Case =>
       /\ last'.ret # last'.ptr
       /\ Disjoint(last'.ret, last'.new, last'.ptr, last'.old)
       /\ Copied(last'.ret, last'.ptr, last'.old)
       /\ \A sp \in live :
            (sp.ptr.obj = last'.ptr.obj /\ sp # Span(last'.ptr, last'.old))
              => Kept(sp.ptr, sp.len)]_vars

\* C8: arena_realloc(arena, NULL, old_size, new_size) does what
\* arena_alloc(arena, new_size) does from the same state: the same pointer, the
\* same chain and sizes, and no byte is copied.
C8_NullIsAlloc ==
  [][(ReallocStep /\ last'.ptr = NULL) =>
       /\ Cur' = arena_alloc(Cur, last'.new).s
       /\ last'.ret = arena_alloc(Cur, last'.new).ret
       /\ \A r \in DOMAIN mem' : Changed(r) = {}]_vars

\* arena_realloc was called with a null pointer and an old_size that is not
\* the new one, on an arena that has regions
C8_Witness ==
  /\ last.op = "realloc"
  /\ last.ptr = NULL
  /\ last.old # last.new
  /\ Len(regs) >= 2

\* C9: arena_realloc with a non-null pointer whose span is in no region of the
\* arena returns NULL.
C9_ForeignIsNull ==
  [][(ReallocStep /\ last'.ptr # NULL /\ Found = NullObj) => last'.ret = NULL]_vars

\* the case C10 is about: pointer is the first byte of a region of the chain
\* and old_size is that region's capacity
C10_Case ==
  /\ ReallocStep
  /\ last'.ptr.obj \in Chain
  /\ last'.ptr.off = Zero
  /\ last'.old = regs[last'.ptr.obj].capacity

\* C10: then the region itself is reallocated to fit new_size and relinked:
\* the number of regions is unchanged, the replacement keeps the position and
\* the next link, and end is the tail still.
C10_RegionReplaced ==
  [][C10_Case =>
       /\ Cardinality(ChainOf(regs', beg')) = Cardinality(Chain)
       /\ \A r \in Chain : regs'[r].next = regs[r].next
       /\ Le(last'.new, regs'[last'.ret.obj].capacity)
       /\ last'.ret.off = Zero
       /\ regs'[end'].next = NullObj]_vars

AllocStep == CallStep /\ last'.op = "alloc"

\* region r has at least n bytes left: capacity - size >= n
Room(R, r, n) ==
  Le(R[r].size, R[r].capacity) /\ Le(n, Minus(R[r].capacity, R[r].size))

\* the case C11 is about: the arena has regions and none has room for the request
C11_Case ==
  /\ AllocStep
  /\ beg # NullObj
  /\ \A r \in Chain : ~Room(regs, r, last'.new)

\* C11: then arena_alloc appends exactly one region at the tail, of capacity at
\* least size * REGION_CAPACITY_MULT (not wrapped, so at least size), places
\* the allocation at its offset 0 and moves end to it.
C11_ChainGrowth ==
  [][C11_Case =>
       /\ Len(regs') = Len(regs) + 1
       /\ regs'[end].next = Len(regs')
       /\ regs'[Len(regs')].next = NullObj
       /\ Le(Plus(last'.new, last'.new), regs'[Len(regs')].capacity)
       /\ last'.ret = [obj |-> Len(regs'), off |-> Zero]
       /\ end' = Len(regs')]_vars

\* C12: arena_alloc on an arena with no region makes exactly one region, of
\* capacity max(size, REGION_DEFAULT_SIZE), sets beg and end to it, returns its
\* first byte and leaves its size equal to the request.
C12_FirstAllocation ==
  [][(AllocStep /\ beg = NullObj) =>
       /\ Len(regs') = 1
       /\ regs'[1] = [next |-> NullObj, size |-> last'.new,
                      capacity |-> MAX(last'.new, Num(REGION_DEFAULT_SIZE))]
       /\ beg' = 1
       /\ end' = 1
       /\ last'.ret = [obj |-> 1, off |-> Zero]]_vars

\* the first call was an arena_alloc, of more than REGION_DEFAULT_SIZE bytes
C12_Witness ==
  /\ ncalls = 1
  /\ last.op = "alloc"
  /\ Lt(Num(REGION_DEFAULT_SIZE), last.new)
  /\ Len(regs) = 1

ResetStep == CallStep /\ last'.op = "reset"

\* C13: arena_reset sets every region's size to 0 and zeroes its storage, and
\* frees none: the chain, its order, the capacities, beg and end are unchanged;
\* a second arena_reset in a row, or one on an empty arena, changes nothing.
C13_Reset ==
  [][ResetStep =>
       /\ Len(regs') = Len(regs)
       /\ beg' = beg
       /\ end' = end
       /\ \A r \in DOMAIN regs :
            /\ regs'[r] = [regs[r] EXCEPT !.size = Zero]
            /\ NonZero(mem', [obj |-> r, off |-> Zero], regs[r].capacity) = {}
       /\ last.op = "reset" => Cur' = Cur
       /\ beg = NullObj => Cur' = Cur]_vars

\* arena_reset was called on two regions or more after the caller stored a byte
C13_Witness ==
  /\ last.op = "reset"
  /\ Len(regs) >= 2
  /\ nwrites >= 1

\* the results of arena_alloc(size), then of arena_alloc(next) and of
\* arena_realloc of the first result to next, from s
Replay(s, size, next) ==
  LET one == arena_alloc(s, size)
      two == arena_alloc(one.s, next)
      re == arena_realloc(one.s, one.ret, size, next)
  IN <<one.ret, one.s.regs, two.ret, two.s.regs, re.ret, re.s.regs>>

\* C14: after arena_free the arena has no region and beg = end = NULL, and
\* the calls that follow give the capacities, sizes and offsets they give on a
\* zero-initialised arena.
C14_FreeThenEmpty ==
  last.op = "free" =>
    /\ regs = <<>>
    /\ beg = NullObj
    /\ end = NullObj
    /\ \A size \in Sizes : \A next \in Sizes :
         Replay(Cur, size, next) = Replay(Empty, size, next)

\* arena_free was called on an arena that calls had filled
C14_Witness ==
  /\ last.op = "free"
  /\ ncalls = MaxCalls
  /\ nwrites >= 1

RECURSIVE FirstRoom(_, _, _)
FirstRoom(R, r, n) ==
  IF r = NullObj THEN NullObj
  ELSE IF Room(R, r, n) THEN r
  ELSE FirstRoom(R, R[r].next, n)

\* C18: on an arena with regions arena_alloc serves the request from the first
\* region in chain order, from beg, whose remaining capacity is at least the
\* request: only that region's size advances, by the request, and the old
\* cursor is returned; a region is created if and only if none has room.
C18_FirstFit ==
  [][(AllocStep /\ beg # NullObj) =>
       LET f == FirstRoom(regs, beg, last'.new)
       IN IF f = NullObj
            THEN Len(regs') = Len(regs) + 1
            ELSE /\ Len(regs') = Len(regs)
                 /\ last'.ret = [obj |-> f, off |-> regs[f].size]
                 /\ regs'[f].size = Plus(regs[f].size, last'.new)
                 /\ \A r \in DOMAIN regs \ {f} : regs'[r] = regs[r]]_vars

\* C19: arena_alloc and arena_realloc never decrease the size of a region.
C19_SizeNeverDecreases ==
  [][(CallStep /\ last'.op \in {"alloc", "realloc"}) =>
       \A r \in DOMAIN regs : Le(regs[r].size, regs'[r].size)]_vars

\* the call extended the allocation where it is
Extended ==
  /\ ReallocStep
  /\ last'.ptr # NULL
  /\ InPlace(regs, Found, last'.ptr, last'.old, last'.new)

\* C20: between two reset/free calls the range returned by arena_alloc, and by
\* an arena_realloc that takes the fallback path, is disjoint from every range
\* returned earlier; an in-place arena_realloc overlaps only the span it extends.
C20_Disjointness ==
  [][(CallStep /\ last'.op \in {"alloc", "realloc"}) =>
       \A sp \in spans :
         \/ Disjoint(last'.ret, last'.new, sp.ptr, sp.len)
         \/ Extended /\ sp.ptr = last'.ptr]_vars

\* the elements the array stores: the first used * size bytes of the block
Elements(d) == [i \in 1..(d.used * d.size) |-> IF i <= Len(d.data) THEN d.data[i] ELSE Undef]

DarrStep(op) == dcalls' # dcalls /\ dlast'.op = op

\* the block is as large as available says
WellFormed(d) == Len(d.data) = d.available * d.size /\ d.used <= d.available

\* C16: prick_darr_tighten leaves available == used, with used and the stored
\* elements as they were; when used == available already it changes nothing.
C16_Tighten ==
  [][(DarrStep("tighten") /\ WellFormed(darr)) =>
       /\ darr'.available = darr'.used
       /\ darr'.used = darr.used
       /\ Elements(darr') = Elements(darr)
       /\ (darr.used = darr.available => darr' = darr)]_vars

\* C17: prick_darr_write_n overwrites elements index .. index+n-1 whenever
\* index + n is not more than used, index + n == used included, leaves the
\* array as it was when the range is out of bounds, and never changes used
\* or available.
C17_WriteN ==
  [][(DarrStep("write_n") /\ WellFormed(darr)) =>
       /\ darr'.used = darr.used
       /\ darr'.available = darr.available
       /\ IF dlast'.index + dlast'.n <= darr.used
            THEN darr'.data = Store(darr.data, dlast'.index * darr.size,
                                    dlast'.ptr, dlast'.n * darr.size)
            ELSE darr' = darr]_vars

\* C21: when a sequence of arena_alloc calls on an empty arena is followed by
\* arena_reset and the same sizes are allocated again, the second run creates
\* no region and returns, call for call, the positions of the first run.
C21_ResetAndReplay ==
  run.phase = "second" =>
    /\ Len(regs) = run.nregs
    /\ \A k \in 1..Len(run.second) : run.second[k] = run.first[k]

VecStep(ops) == vcalls' # vcalls /\ vlast'.op \in ops

\* the bytes of the vector: the first size bytes of its block
VecContents(v) == {e \in v.bytes : Lt(e[1], v.size)}

\* C22: after vec_append_byte and vec_append calls on a vector made by
\* vec_make, size is the number of bytes appended, size <= capacity and the
\* bytes are the appended data in order; when vec_ensure_remaining has to grow
\* the vector the capacity becomes max(2 * old capacity, size + space) and the
\* bytes are kept.
C22_VecAppend ==
  [][VecStep({"append_byte", "append", "ensure_remaining"}) =>
       /\ vec'.size = vdata'.len
       /\ Le(vec'.size, vec'.capacity)
       /\ VecContents(vec') = vdata'.bytes
       /\ (Le(vec.size, vec.capacity) /\ Lt(Minus(vec.capacity, vec.size), vlast'.n)) =>
            vec'.capacity = MAX(Plus(vec.capacity, vec.capacity),
                                Plus(vec.size, vlast'.n))]_vars

TreeStep(ops) == tcalls' # tcalls /\ tlast'.op \in ops

\* the nodes of the subtree at n, left to right
RECURSIVE InOrder(_, _)
InOrder(N, n) ==
  IF n = NullNode THEN <<>>
  ELSE InOrder(N, N[n].left) \o <<n>> \o InOrder(N, N[n].right)

Subtree(N, n) == {InOrder(N, n)[i] : i \in DOMAIN InOrder(N, n)}

ValuesOf(N, seq) == [i \in DOMAIN seq |-> N[seq[i]].value]

\* left subtrees hold smaller values, right subtrees values not smaller
Ordered(N, r) ==
  \A n \in Subtree(N, r) :
    /\ \A l \in Subtree(N, N[n].left) : comp(N[l].value, N[n].value) < 0
    /\ \A g \in Subtree(N, N[n].right) : comp(N[g].value, N[n].value) >= 0

Count(seq, v) == Cardinality({i \in DOMAIN seq : seq[i] = v})

\* the tree at r holds every node of N, and their values are those of vals
HoldsExactly(N, r, vals) ==
  /\ Subtree(N, r) = DOMAIN N
  /\ Len(InOrder(N, r)) = Len(N)
  /\ \A v \in TreeValues : Count(ValuesOf(N, InOrder(N, r)), v) = Count(vals, v)

\* the child a rotation of the node at the link lifts
Lifted(op, link) ==
  IF Get(Tree, link) = NullNode THEN NullNode
  ELSE IF op = "right_rotate" THEN nodes[Get(Tree, link)].left
  ELSE nodes[Get(Tree, link)].right

\* C23: after prick_btree_insert calls the tree is ordered (left subtree less,
\* right subtree greater or equal, at every node) and holds exactly the
\* inserted values, duplicates kept; a rotation keeps the set of nodes and the
\* in-order sequence of values, and changes nothing when the child it needs is
\* absent.
C23_OrderedTree ==
  [][/\ TreeStep({"insert"}) =>
          /\ HoldsExactly(nodes', root', inserted')
          /\ ~rotated => Ordered(nodes', root')
     /\ TreeStep({"left_rotate", "right_rotate"}) =>
          /\ Subtree(nodes', root') = Subtree(nodes, root)
          /\ InOrder(nodes', root') = InOrder(nodes, root)
          /\ ValuesOf(nodes', InOrder(nodes', root')) = ValuesOf(nodes, InOrder(nodes, root))
          /\ Lifted(tlast'.op, tlast'.link) = NullNode => (nodes' = nodes /\ root' = root)]_vars

\* three values, one of them twice, were inserted and a rotation below the
\* root has lifted the node inserted last above the one inserted before it
C23_Witness ==
  /\ tlast.op \in {"left_rotate", "right_rotate"}
  /\ Len(nodes) = 3
  /\ \E i, j \in DOMAIN inserted : i < j /\ inserted[i] = inserted[j]
  /\ tlast.link.at # NullNode
  /\ nodes[tlast.link.at][tlast.link.side] = 3
  /\ 2 \in {nodes[3].left, nodes[3].right}

====
